---------------------------- MODULE Spec2Model ----------------------------
(***************************************************************************)
(* omecat: the OME entity model, the plane-index calculator, the filename  *)
(* policy, the companion transformation and the concat command of          *)
(* src/src/main.rs.                                                        *)
(*                                                                         *)
(* Strings that the program takes apart or builds (file names, templates)  *)
(* are sequences of one-character strings; strings it only carries (ids,   *)
(* names, units) are opaque values.  An Option<T> is a sequence of length  *)
(* at most one.  A call that may panic returns <<"ok", v>> or <<"panic">>; *)
(* a call that returns a Result returns <<"ok", v>> or <<"err">>.          *)
(***************************************************************************)
EXTENDS Integers, Sequences, FiniteSets, TLC

VARIABLES
    pc,         \* position of main / of the function under test
    file,       \* the ImageDescription tag of the input file: None or Some(text)
    config,     \* the StackConfig built from the command line
    xml_str,    \* main's xml_str, once read
    src,        \* to_multifile_companion_ome's local `src`, mutated in place
    z,          \* the outer loop variable of to_multifile_companion_ome
    c,          \* the inner loop variable of to_multifile_companion_ome
    ret,        \* what to_multifile_companion_ome returned: None or Some(OME)
    stdout,     \* what main has written to standard output
    call,       \* arguments of a pure function under test
    result,     \* its result
    rt          \* the entity-model round trip: text, first parse, text again, second parse

vars == <<pc, file, config, xml_str, src, z, c, ret, stdout, call, result, rt>>

---------------------------------------------------------------------------
(* Bounds of the model *)

MaxSize == 2        \* SizeZ, SizeC, SizeT of an input document range over 1..MaxSize
MaxChannels == 2    \* an input document has 0..MaxChannels Channel elements
MaxPlanes == 1      \* an input document has 0..MaxPlanes TiffData elements
MaxImages == 2      \* an input document has 0..MaxImages Image elements
MaxTargetZ == 2     \* --size-z ranges over 0..MaxTargetZ, and one unsupported value
MaxAxis == 3        \* axis sizes handed to the plane-index calculator on its own
MaxProbe == 3       \* depth indices tried per size_z: the first and last MaxProbe

(* Program constant: the largest size_z StackConfig::filename supports *)
LimitSizeZ == 999

---------------------------------------------------------------------------
(* Option, Result, panic *)

None == <<>>
Some(v) == <<v>>
IsSome(o) == Len(o) = 1
Unwrap(o) == o[1]

Ok(v) == <<"ok", v>>
Err == <<"err">>
Panic == <<"panic">>
IsOk(r) == r[1] = "ok"
Val(r) == r[2]

---------------------------------------------------------------------------
(* Text: decimal formatting, zero padding, str::replace *)

DigitChars == <<"0", "1", "2", "3", "4", "5", "6", "7", "8", "9">>

RECURSIVE Decimal(_)
Decimal(n) ==
    IF n < 10 THEN <<DigitChars[n + 1]>>
    ELSE Decimal(n \div 10) \o <<DigitChars[(n % 10) + 1]>>

\* format!("{:0w}", n): at least w characters, padded on the left with zeros
FormatZeroPad(n, w) ==
    LET d == Decimal(n)
    IN  IF Len(d) >= w THEN d ELSE [i \in 1..(w - Len(d)) |-> "0"] \o d

\* str::replace: every non-overlapping occurrence, left to right
RECURSIVE Replace(_, _, _)
Replace(s, from, to) ==
    IF Len(s) < Len(from) THEN s
    ELSE IF SubSeq(s, 1, Len(from)) = from
         THEN to \o Replace(SubSeq(s, Len(from) + 1, Len(s)), from, to)
         ELSE <<s[1]>> \o Replace(Tail(s), from, to)

Placeholder == <<"{", "z", "}">>

---------------------------------------------------------------------------
(* get_relative_ifd_index *)

ValidOrders == {"XYZCT", "XYZTC", "XYCTZ", "XYCZT", "XYTCZ", "XYTZC"}

\* get_relative_ifd_index with the stride of the slowest axis of XYCTZ taken from Z
get_relative_ifd_index_WrongStride(selection, pixels) ==
    LET size_t == pixels.size_t
        size_c == pixels.size_c
        size_z == pixels.size_z
        st == selection.t
        sz == selection.z
        sc == selection.c
        order == pixels.dimension_order
    IN  CASE order = "XYZCT" -> Ok(sz + (size_z * sc) + (size_z * size_c * st))
          [] order = "XYZTC" -> Ok(sz + (size_z * st) + (size_z * size_t * sc))
          [] order = "XYCTZ" -> Ok(sc + (size_c * st) + (size_c * size_z * sz))
          [] order = "XYCZT" -> Ok(sc + (size_c * sz) + (size_c * size_z * st))
          [] order = "XYTCZ" -> Ok(st + (size_t * sc) + (size_t * size_c * sz))
          [] order = "XYTZC" -> Ok(st + (size_t * sz) + (size_t * size_z * sc))
          [] OTHER -> Panic

get_relative_ifd_index(selection, pixels) ==
    LET size_t == pixels.size_t
        size_c == pixels.size_c
        size_z == pixels.size_z
        st == selection.t
        sz == selection.z
        sc == selection.c
        order == pixels.dimension_order
    IN  CASE order = "XYZCT" -> Ok(sz + (size_z * sc) + (size_z * size_c * st))
          [] order = "XYZTC" -> Ok(sz + (size_z * st) + (size_z * size_t * sc))
          [] order = "XYCTZ" -> Ok(sc + (size_c * st) + (size_c * size_t * sz))
          [] order = "XYCZT" -> Ok(sc + (size_c * sz) + (size_c * size_z * st))
          [] order = "XYTCZ" -> Ok(st + (size_t * sc) + (size_t * size_c * sz))
          [] order = "XYTZC" -> Ok(st + (size_t * sz) + (size_t * size_z * sc))
          [] OTHER -> Panic

---------------------------------------------------------------------------
(* StackConfig::filename *)

filename(cfg, zi) ==
    CASE cfg.size_z \in 1..9 ->
            Ok(Replace(cfg.filename_template, Placeholder, FormatZeroPad(zi + 1, 2)))
      [] cfg.size_z \in 10..99 ->
            Ok(Replace(cfg.filename_template, Placeholder, FormatZeroPad(zi + 1, 2)))
      [] cfg.size_z \in 100..LimitSizeZ ->
            Ok(Replace(cfg.filename_template, Placeholder, FormatZeroPad(zi + 1, 3)))
      [] OTHER -> Panic

---------------------------------------------------------------------------
(* The entity model: OME, Image, Pixels, Channel, LightPath, TiffData, Uuid *)

LightPath == [x \in {} |-> 0]

MkUuid(file_name) == [file_name |-> file_name]

MkTiffData(ifd, plane_count, first_c, first_z, first_t, uuid) ==
    [ifd |-> ifd, plane_count |-> plane_count, first_c |-> first_c,
     first_z |-> first_z, first_t |-> first_t, uuid |-> uuid]

MkChannel(id, samples_per_pixel, name) ==
    [id |-> id, samples_per_pixel |-> samples_per_pixel, name |-> name,
     light_path |-> LightPath]

(***************************************************************************)
(* An XML element is a function from keys to values.  A key starting with  *)
(* "@" is an attribute, any other key a child: quick-xml's convention,     *)
(* which the serde renames of the entity model follow.  An absent Option   *)
(* and an empty Vec write nothing.                                         *)
(***************************************************************************)
NoKeys == [x \in {} |-> 0]

Attr(k, v) == k :> v
OptAttr(k, o) == IF IsSome(o) THEN k :> Unwrap(o) ELSE NoKeys

\* Uuid: #[serde(rename(serialize = "@FileName", deserialize = "FileName"))]
UuidSerializeName == "@FileName"
UuidDeserializeName == "FileName"

WriteUuid(u, fk) == Attr(fk, u.file_name)

WriteTiffData(t, fk) ==
    OptAttr("@IFD", t.ifd) @@ OptAttr("@PlaneCount", t.plane_count)
        @@ OptAttr("@FirstC", t.first_c) @@ OptAttr("@FirstZ", t.first_z)
        @@ OptAttr("@FirstT", t.first_t)
        @@ (IF IsSome(t.uuid) THEN Attr("UUID", WriteUuid(Unwrap(t.uuid), fk)) ELSE NoKeys)

WriteChannel(ch) ==
    Attr("@ID", ch.id) @@ Attr("@SamplesPerPixel", ch.samples_per_pixel)
        @@ Attr("@Name", ch.name) @@ Attr("LightPath", NoKeys)

WritePixels(p, fk) ==
    Attr("@ID", p.id) @@ Attr("@Type", p.type)
        @@ Attr("@SizeX", p.size_x) @@ Attr("@SizeY", p.size_y)
        @@ Attr("@SizeZ", p.size_z) @@ Attr("@SizeC", p.size_c)
        @@ Attr("@SizeT", p.size_t)
        @@ OptAttr("@PhysicalSizeX", p.physical_size_x)
        @@ OptAttr("@PhysicalSizeXUnit", p.physical_size_x_unit)
        @@ OptAttr("@PhysicalSizeY", p.physical_size_y)
        @@ OptAttr("@PhysicalSizeYUnit", p.physical_size_y_unit)
        @@ OptAttr("@PhysicalSizeZ", p.physical_size_z)
        @@ OptAttr("@PhysicalSizeZUnit", p.physical_size_z_unit)
        @@ Attr("@DimensionOrder", p.dimension_order)
        @@ (IF p.channels = <<>> THEN NoKeys
            ELSE Attr("Channel", [i \in 1..Len(p.channels) |-> WriteChannel(p.channels[i])]))
        @@ (IF p.tiff_data = <<>> THEN NoKeys
            ELSE Attr("TiffData",
                      [i \in 1..Len(p.tiff_data) |-> WriteTiffData(p.tiff_data[i], fk)]))

WriteImage(im, fk) ==
    Attr("@ID", im.id) @@ Attr("@Name", im.name) @@ Attr("Pixels", WritePixels(im.pixels, fk))

WriteOME(ome, fk) ==
    IF ome.images = <<>> THEN NoKeys
    ELSE Attr("Image", [i \in 1..Len(ome.images) |-> WriteImage(ome.images[i], fk)])

\* quick_xml::se::to_string on the derived Serialize of OME
to_string(ome) == WriteOME(ome, UuidSerializeName)

(***************************************************************************)
(* quick_xml::de::from_str on the derived Deserialize: a required field    *)
(* whose key is absent is an error, an absent Option is None, an absent    *)
(* Vec with `default` is empty, and an unknown key is ignored.             *)
(***************************************************************************)
Has(e, keys) == keys \subseteq DOMAIN e

OptField(e, k) == IF k \in DOMAIN e THEN Some(e[k]) ELSE None

\* the elements of a Vec field with `default`: none when the key is absent
VecField(e, k) == IF k \in DOMAIN e THEN e[k] ELSE <<>>

\* the parsed elements of a Vec; one failure fails the whole
Collect(rs) ==
    IF \E i \in 1..Len(rs) : ~IsOk(rs[i]) THEN Err
    ELSE Ok([i \in 1..Len(rs) |-> Val(rs[i])])

ParseUuid(e) ==
    IF Has(e, {UuidDeserializeName}) THEN Ok(MkUuid(e[UuidDeserializeName])) ELSE Err

ParseTiffData(e) ==
    LET u == IF "UUID" \in DOMAIN e THEN ParseUuid(e["UUID"]) ELSE Err
    IN  IF "UUID" \in DOMAIN e /\ ~IsOk(u) THEN Err
        ELSE Ok(MkTiffData(OptField(e, "@IFD"), OptField(e, "@PlaneCount"),
                           OptField(e, "@FirstC"), OptField(e, "@FirstZ"),
                           OptField(e, "@FirstT"),
                           IF "UUID" \in DOMAIN e THEN Some(Val(u)) ELSE None))

ParseChannel(e) ==
    IF Has(e, {"@ID", "@SamplesPerPixel", "@Name", "LightPath"})
    THEN Ok(MkChannel(e["@ID"], e["@SamplesPerPixel"], e["@Name"]))
    ELSE Err

ParsePixels(e) ==
    LET chs == Collect([i \in 1..Len(VecField(e, "Channel")) |->
                            ParseChannel(VecField(e, "Channel")[i])])
        tds == Collect([i \in 1..Len(VecField(e, "TiffData")) |->
                            ParseTiffData(VecField(e, "TiffData")[i])])
    IN  IF ~Has(e, {"@ID", "@Type", "@SizeX", "@SizeY", "@SizeZ", "@SizeC", "@SizeT",
                    "@DimensionOrder"})
           \/ ~IsOk(chs) \/ ~IsOk(tds)
        THEN Err
        ELSE Ok([id |-> e["@ID"], type |-> e["@Type"],
                 size_x |-> e["@SizeX"], size_y |-> e["@SizeY"], size_z |-> e["@SizeZ"],
                 size_c |-> e["@SizeC"], size_t |-> e["@SizeT"],
                 physical_size_x |-> OptField(e, "@PhysicalSizeX"),
                 physical_size_x_unit |-> OptField(e, "@PhysicalSizeXUnit"),
                 physical_size_y |-> OptField(e, "@PhysicalSizeY"),
                 physical_size_y_unit |-> OptField(e, "@PhysicalSizeYUnit"),
                 physical_size_z |-> OptField(e, "@PhysicalSizeZ"),
                 physical_size_z_unit |-> OptField(e, "@PhysicalSizeZUnit"),
                 dimension_order |-> e["@DimensionOrder"],
                 channels |-> Val(chs), tiff_data |-> Val(tds)])

ParseImage(e) ==
    LET p == IF "Pixels" \in DOMAIN e THEN ParsePixels(e["Pixels"]) ELSE Err
    IN  IF ~Has(e, {"@ID", "@Name", "Pixels"}) \/ ~IsOk(p) THEN Err
        ELSE Ok([id |-> e["@ID"], name |-> e["@Name"], pixels |-> Val(p)])

from_str(text) ==
    LET ims == Collect([i \in 1..Len(VecField(text, "Image")) |->
                            ParseImage(VecField(text, "Image")[i])])
    IN  IF IsOk(ims) THEN Ok([images |-> Val(ims)]) ELSE Err

---------------------------------------------------------------------------
(* The inputs: documents, their texts, configurations *)

Orders == ValidOrders \cup {"XYZ"}

ChannelOf(i) == MkChannel(<<"Channel", i>>, 1, <<"ch", i>>)

\* a fully populated record with a file reference, then a sparse one, in turn
PlaneOf(i) ==
    IF i % 2 = 1
    THEN MkTiffData(Some(i - 1), Some(1), Some(0), Some(i - 1), Some(0),
                    Some(MkUuid(<<"o", ".", "t">>)))
    ELSE MkTiffData(None, None, None, None, None, None)

PixelsOf(i, sz, sc, st, order, nch, npl, pz) ==
    [id |-> <<"Pixels", i>>, type |-> "uint16",
     size_x |-> 2, size_y |-> 1, size_z |-> sz, size_c |-> sc, size_t |-> st,
     physical_size_x |-> Some(3), physical_size_x_unit |-> Some("nm"),
     physical_size_y |-> None, physical_size_y_unit |-> None,
     physical_size_z |-> IF pz THEN Some(5) ELSE None,
     physical_size_z_unit |-> IF pz THEN Some("mm") ELSE None,
     dimension_order |-> order,
     channels |-> [k \in 1..nch |-> ChannelOf(k)],
     tiff_data |-> [k \in 1..npl |-> PlaneOf(k)]]

ImageOf(i, pixels) == [id |-> <<"Image", i>>, name |-> <<"img", i>>, pixels |-> pixels]

FirstImages ==
    {ImageOf(1, PixelsOf(1, sz, sc, st, order, nch, npl, pz)) :
        sz \in 1..MaxSize, sc \in 1..MaxSize, st \in 1..MaxSize, order \in Orders,
        nch \in 0..MaxChannels, npl \in 0..MaxPlanes, pz \in BOOLEAN}

LaterImage(i) == ImageOf(i, PixelsOf(i, 1, 1, 1, "XYZCT", 1, 1, TRUE))

Documents ==
    {[images |-> <<>>]}
    \cup {[images |-> <<f>> \o [k \in 1..n |-> LaterImage(k + 1)]] :
            f \in FirstImages, n \in 0..(MaxImages - 1)}

\* the text of a document, its file references written as a child or as an attribute
Texts == {WriteOME(d, fk) : d \in Documents, fk \in {UuidDeserializeName, UuidSerializeName}}

Templates == {<<"s", "{", "z", "}", ".", "t">>}

Configs ==
    {[size_z |-> n, physical_size_z |-> 1, physical_size_z_unit |-> "um",
      filename_template |-> tpl] :
        n \in (0..MaxTargetZ) \cup {LimitSizeZ + 1}, tpl \in Templates}

---------------------------------------------------------------------------
(* The concat command: main and to_multifile_companion_ome *)

Init ==
    /\ pc = "main"
    /\ file \in {None} \cup {Some(t) : t \in Texts}
    /\ config \in Configs
    /\ xml_str = None
    /\ src = None
    /\ z = 0
    /\ c = 0
    /\ ret = None
    /\ stdout = <<>>
    /\ call = None
    /\ result = None
    /\ rt = None

\* the first image's Pixels of `src`
Pixels == Unwrap(src).images[1].pixels

\* let xml_str = get_image_description(file)?;
GetImageDescription ==
    /\ pc = "main"
    /\ IF IsSome(file)
       THEN xml_str' = file /\ pc' = "from_str"
       ELSE xml_str' = xml_str /\ pc' = "error"
    /\ UNCHANGED <<file, config, src, z, c, ret, stdout, call, result, rt>>

\* let mut src: OME = from_str(xml_str)?;
FromStr ==
    /\ pc = "from_str"
    /\ LET r == from_str(Unwrap(xml_str))
       IN  IF IsOk(r)
           THEN src' = Some(Val(r)) /\ pc' = "first_mut"
           ELSE src' = src /\ pc' = "error"
    /\ UNCHANGED <<file, config, xml_str, z, c, ret, stdout, call, result, rt>>

\* let image = src.images.first_mut().unwrap();
FirstMut ==
    /\ pc = "first_mut"
    /\ pc' = IF Unwrap(src).images = <<>> THEN "panicked" ELSE "set_physical"
    /\ UNCHANGED <<file, config, xml_str, src, z, c, ret, stdout, call, result, rt>>

\* SetPhysicalSizeZ writing the X calibration as well
SetPhysicalSizeZ_AlsoX ==
    /\ pc = "set_physical"
    /\ src' = [src EXCEPT
                ![1].images[1].pixels.physical_size_x = Some(config.physical_size_z),
                ![1].images[1].pixels.physical_size_z = Some(config.physical_size_z),
                ![1].images[1].pixels.physical_size_z_unit = Some(config.physical_size_z_unit)]
    /\ pc' = "clear"
    /\ UNCHANGED <<file, config, xml_str, z, c, ret, stdout, call, result, rt>>

\* image.pixels.physical_size_z = ...; image.pixels.physical_size_z_unit = ...;
SetPhysicalSizeZ ==
    /\ pc = "set_physical"
    /\ src' = [src EXCEPT
                ![1].images[1].pixels.physical_size_z = Some(config.physical_size_z),
                ![1].images[1].pixels.physical_size_z_unit = Some(config.physical_size_z_unit)]
    /\ pc' = "clear"
    /\ UNCHANGED <<file, config, xml_str, z, c, ret, stdout, call, result, rt>>

\* image.pixels.tiff_data.clear();
ClearTiffData ==
    /\ pc = "clear"
    /\ src' = [src EXCEPT ![1].images[1].pixels.tiff_data = <<>>]
    /\ pc' = "assert"
    /\ UNCHANGED <<file, config, xml_str, z, c, ret, stdout, call, result, rt>>

\* AssertSizeT without the assertion
AssertSizeT_Unchecked ==
    /\ pc = "assert"
    /\ pc' = "loop"
    /\ z' = 0
    /\ c' = 0
    /\ UNCHANGED <<file, config, xml_str, src, ret, stdout, call, result, rt>>

\* assert_eq!(image.pixels.size_t, 1); then the loops start
AssertSizeT ==
    /\ pc = "assert"
    /\ pc' = IF Pixels.size_t = 1 THEN "loop" ELSE "panicked"
    /\ z' = 0
    /\ c' = 0
    /\ UNCHANGED <<file, config, xml_str, src, ret, stdout, call, result, rt>>

\* TiffDataRecord with first_c and first_z exchanged
TiffDataRecord_Swapped(zi, ci, ifd, name) ==
    MkTiffData(Some(ifd), Some(1), Some(zi), Some(ci), Some(0), Some(MkUuid(name)))

\* the TiffData pushed for depth zi and channel ci
TiffDataRecord(zi, ci, ifd, name) ==
    MkTiffData(Some(ifd), Some(1), Some(ci), Some(zi), Some(0), Some(MkUuid(name)))

\* the selection handed to get_relative_ifd_index for depth zi and channel ci
SelectionFor(zi, ci) == [t |-> 0, z |-> 0, c |-> ci]

\* one pass of the inner loop's body
EmitPlane ==
    /\ pc = "loop"
    /\ z < config.size_z
    /\ c < Len(Pixels.channels)
    /\ LET ifd == get_relative_ifd_index(SelectionFor(z, c), Pixels)
           name == filename(config, z)
       IN  IF IsOk(ifd) /\ IsOk(name)
           THEN /\ src' = [src EXCEPT ![1].images[1].pixels.tiff_data =
                              Append(@, TiffDataRecord(z, c, Val(ifd), Val(name)))]
                /\ c' = c + 1
                /\ pc' = pc
           ELSE /\ pc' = "panicked"
                /\ UNCHANGED <<src, c>>
    /\ UNCHANGED <<file, config, xml_str, z, ret, stdout, call, result, rt>>

\* the inner loop is exhausted: the next depth
NextZ ==
    /\ pc = "loop"
    /\ z < config.size_z
    /\ c = Len(Pixels.channels)
    /\ z' = z + 1
    /\ c' = 0
    /\ UNCHANGED <<pc, file, config, xml_str, src, ret, stdout, call, result, rt>>

\* the outer loop is exhausted: image.pixels.size_z = config.size_z; Ok(src)
SetSizeZ ==
    /\ pc = "loop"
    /\ z = config.size_z
    /\ src' = [src EXCEPT ![1].images[1].pixels.size_z = config.size_z]
    /\ ret' = src'
    /\ pc' = "returned"
    /\ UNCHANGED <<file, config, xml_str, z, c, stdout, call, result, rt>>

\* let doc = to_string(&ome)?.parse()?; handle.write_all(...)?;
WriteOutput ==
    /\ pc = "returned"
    /\ stdout' = Append(stdout, to_string(Unwrap(ret)))
    /\ pc' = "done"
    /\ UNCHANGED <<file, config, xml_str, src, z, c, ret, call, result, rt>>

Next ==
    \/ GetImageDescription
    \/ FromStr
    \/ FirstMut
    \/ SetPhysicalSizeZ
    \/ ClearTiffData
    \/ AssertSizeT
    \/ EmitPlane
    \/ NextZ
    \/ SetSizeZ
    \/ WriteOutput

Spec == Init /\ [][Next]_vars

---------------------------------------------------------------------------
(* The plane-index calculator on its own *)

InitIndex ==
    /\ pc = "call_index"
    /\ call \in {[selection |-> [t |-> st, z |-> sz, c |-> sc],
                  pixels |-> PixelsOf(1, nz, nc, nt, order, 0, 0, FALSE)] :
                    st \in 0..(MaxAxis - 1), sz \in 0..(MaxAxis - 1), sc \in 0..(MaxAxis - 1),
                    nz \in 1..MaxAxis, nc \in 1..MaxAxis, nt \in 1..MaxAxis,
                    order \in Orders}
    /\ result = None
    /\ file = None /\ config = None /\ xml_str = None /\ src = None
    /\ z = 0 /\ c = 0 /\ ret = None /\ stdout = <<>> /\ rt = None

CallIndex ==
    /\ pc = "call_index"
    /\ result' = get_relative_ifd_index(call.selection, call.pixels)
    /\ pc' = "index_called"
    /\ UNCHANGED <<file, config, xml_str, src, z, c, ret, stdout, call, rt>>

NextIndex == CallIndex

SpecIndex == InitIndex /\ [][NextIndex]_vars

---------------------------------------------------------------------------
(* The filename policy on its own *)

TemplateParts == {<<(<<"s">>), (<<".", "t">>)>>, <<(<<>>), (<<>>)>>}

\* the depth indices tried for a target depth count n
Probes(n) ==
    IF n = 0 THEN {0}
    ELSE {k \in 0..(n - 1) : k < MaxProbe \/ k >= n - MaxProbe}

InitFilename ==
    /\ pc = "call_filename"
    /\ \E n \in 0..(LimitSizeZ + 1), parts \in TemplateParts :
         \E zi \in Probes(n) :
            call = [config |-> [size_z |-> n, physical_size_z |-> 1,
                                physical_size_z_unit |-> "um",
                                filename_template |-> parts[1] \o Placeholder \o parts[2]],
                    z |-> zi, prefix |-> parts[1], suffix |-> parts[2]]
    /\ result = None
    /\ file = None /\ config = None /\ xml_str = None /\ src = None
    /\ z = 0 /\ c = 0 /\ ret = None /\ stdout = <<>> /\ rt = None

CallFilename ==
    /\ pc = "call_filename"
    /\ result' = filename(call.config, call.z)
    /\ pc' = "filename_called"
    /\ UNCHANGED <<file, config, xml_str, src, z, c, ret, stdout, call, rt>>

NextFilename == CallFilename

SpecFilename == InitFilename /\ [][NextFilename]_vars

---------------------------------------------------------------------------
(* The entity-model round trip: parse, serialize, parse again *)

InitRoundTrip ==
    /\ pc = "rt_parse"
    /\ rt \in {[text |-> t, first |-> None, again |-> None, second |-> None] : t \in Texts}
    /\ call = None /\ result = None
    /\ file = None /\ config = None /\ xml_str = None /\ src = None
    /\ z = 0 /\ c = 0 /\ ret = None /\ stdout = <<>>

ParseFirst ==
    /\ pc = "rt_parse"
    /\ rt' = [rt EXCEPT !.first = Some(from_str(rt.text))]
    /\ pc' = IF IsOk(from_str(rt.text)) THEN "rt_serialize" ELSE "rt_rejected"
    /\ UNCHANGED <<file, config, xml_str, src, z, c, ret, stdout, call, result>>

SerializeFirst ==
    /\ pc = "rt_serialize"
    /\ rt' = [rt EXCEPT !.again = Some(to_string(Val(Unwrap(rt.first))))]
    /\ pc' = "rt_reparse"
    /\ UNCHANGED <<file, config, xml_str, src, z, c, ret, stdout, call, result>>

ParseSecond ==
    /\ pc = "rt_reparse"
    /\ rt' = [rt EXCEPT !.second = Some(from_str(Unwrap(rt.again)))]
    /\ pc' = "rt_done"
    /\ UNCHANGED <<file, config, xml_str, src, z, c, ret, stdout, call, result>>

NextRoundTrip ==
    \/ ParseFirst
    \/ SerializeFirst
    \/ ParseSecond

SpecRoundTrip == InitRoundTrip /\ [][NextRoundTrip]_vars

---------------------------------------------------------------------------
(* What the properties below refer to *)

\* the document as first parsed, before the transformation touched it
Parsed == from_str(Unwrap(file))
HasImage == IsSome(file) /\ IsOk(Parsed) /\ Val(Parsed).images # <<>>
OrigPixels == Val(Parsed).images[1].pixels

\* the first image's Pixels of the returned document
RetPixels == Unwrap(ret).images[1].pixels
Returned == pc \in {"returned", "done"}

---------------------------------------------------------------------------
(* Properties *)

\* C1: every emitted plane record's IFD is the plane-index calculator's result for
\* the selection (t = 0, z, c) of that record's depth and channel, evaluated
\* against the document's original SizeZ, SizeC, SizeT and dimension order.
C1_IfdOfDepthAndChannel ==
    Returned =>
        \A i \in 1..Len(RetPixels.tiff_data) :
            LET rec == RetPixels.tiff_data[i]
                expected == get_relative_ifd_index(
                                [t |-> 0, z |-> Unwrap(rec.first_z), c |-> Unwrap(rec.first_c)],
                                OrigPixels)
            IN  IsOk(expected) /\ rec.ifd = Some(Val(expected))

\* C2: for each of the six valid dimension orders, read after "XY" as axis1 axis2
\* axis3 with sizes n1, n2, n3 and in-range selection indices i1, i2, i3, the
\* calculator returns i1 + n1*i2 + n1*n2*i3.
C2_IndexFormula ==
    LET order == call.pixels.dimension_order
        axes == CASE order = "XYZCT" -> <<"Z", "C", "T">>
                  [] order = "XYZTC" -> <<"Z", "T", "C">>
                  [] order = "XYCTZ" -> <<"C", "T", "Z">>
                  [] order = "XYCZT" -> <<"C", "Z", "T">>
                  [] order = "XYTCZ" -> <<"T", "C", "Z">>
                  [] order = "XYTZC" -> <<"T", "Z", "C">>
        n(a) == CASE a = "Z" -> call.pixels.size_z
                  [] a = "C" -> call.pixels.size_c
                  [] a = "T" -> call.pixels.size_t
        i(a) == CASE a = "Z" -> call.selection.z
                  [] a = "C" -> call.selection.c
                  [] a = "T" -> call.selection.t
    IN  (/\ pc = "index_called"
         /\ order \in ValidOrders
         /\ call.selection.z < call.pixels.size_z
         /\ call.selection.c < call.pixels.size_c
         /\ call.selection.t < call.pixels.size_t)
        => result = Ok(i(axes[1]) + n(axes[1]) * i(axes[2])
                         + n(axes[1]) * n(axes[2]) * i(axes[3]))

\* the spec's worked example: XYZCT, Z=2, C=3, T=1, z=1, c=2, t=0 gives 5
C2_Witness ==
    /\ pc = "index_called"
    /\ call.pixels.dimension_order = "XYZCT"
    /\ call.pixels.size_z = 2 /\ call.pixels.size_c = 3 /\ call.pixels.size_t = 1
    /\ call.selection = [t |-> 0, z |-> 1, c |-> 2]
    /\ result = Ok(5)

\* C3: the returned document has target depth count times SizeC plane records.
C3_PlaneCountIsDepthTimesSizeC ==
    Returned => Len(RetPixels.tiff_data) = config.size_z * RetPixels.size_c

\* C4: with an invalid dimension order in the first image, or a target depth
\* count of 1000 or more, the transformation never returns a document.
C4_InvalidInputNeverReturns ==
    (\/ config.size_z > LimitSizeZ
     \/ (HasImage /\ OrigPixels.dimension_order \notin ValidOrders))
        => ret = None

\* C5: once the parsed document has no Image, or a first Image whose SizeT is
\* not 1, the transformation fails: it runs on to a panic, returns no document,
\* and nothing is written to the output.
C5_PreconditionFailure ==
    (/\ IsSome(src)
     /\ (Unwrap(src).images = <<>> \/ Pixels.size_t # 1))
        => /\ ret = None
           /\ stdout = <<>>
           /\ pc \notin {"returned", "done", "error"}
           /\ (pc = "panicked" \/ ENABLED Next)

\* the assertion fails after the plane list was cleared; nothing was returned
C5_Witness ==
    /\ pc = "panicked"
    /\ HasImage
    /\ OrigPixels.size_t # 1
    /\ OrigPixels.tiff_data # <<>>
    /\ Pixels.tiff_data = <<>>
    /\ ret = None
    /\ stdout = <<>>

\* C6: a returned document is the parsed one with, in the first image's Pixels,
\* SizeZ set to the target depth count, PhysicalSizeZ and its unit set to the
\* configured values and the plane list replaced; nothing else differs, and
\* SizeT is 1.
C6_Frame ==
    Returned =>
        /\ Unwrap(ret) =
              [Val(Parsed) EXCEPT
                 !.images[1].pixels.size_z = config.size_z,
                 !.images[1].pixels.physical_size_z = Some(config.physical_size_z),
                 !.images[1].pixels.physical_size_z_unit = Some(config.physical_size_z_unit),
                 !.images[1].pixels.tiff_data = RetPixels.tiff_data]
        /\ RetPixels.size_t = 1

\* a prior PhysicalSizeZ is overwritten, a second image and a prior plane list exist
C6_Witness ==
    /\ pc = "returned"
    /\ Len(Unwrap(ret).images) >= 2
    /\ OrigPixels.physical_size_z = Some(5)
    /\ RetPixels.physical_size_z = Some(1)
    /\ OrigPixels.tiff_data # <<>>
    /\ OrigPixels.size_z # config.size_z
    /\ Len(RetPixels.tiff_data) = 4
    /\ Len(RetPixels.channels) = 2

\* C7: with C the number of channels, the record at position z*C + c has
\* first-depth z, first-channel c, first-time 0, plane-count 1, an IFD, and the
\* Filename Policy's name for depth z; there are no other records.
C7_PlaneOrder ==
    Returned =>
        LET C == Len(RetPixels.channels)
            td == RetPixels.tiff_data
        IN  /\ Len(td) = config.size_z * C
            /\ \A zi \in 0..(config.size_z - 1) : \A ci \in 0..(C - 1) :
                 LET rec == td[zi * C + ci + 1]
                 IN  /\ rec.first_z = Some(zi)
                     /\ rec.first_c = Some(ci)
                     /\ rec.first_t = Some(0)
                     /\ rec.plane_count = Some(1)
                     /\ IsSome(rec.ifd)
                     /\ IsOk(filename(config, zi))
                     /\ rec.uuid = Some(MkUuid(Val(filename(config, zi))))

\* two depths of two channels: the third record is depth 1, channel 0, file s02.t
C7_Witness ==
    /\ pc = "returned"
    /\ config.size_z = 2
    /\ Len(RetPixels.channels) = 2
    /\ Len(RetPixels.tiff_data) = 4
    /\ RetPixels.tiff_data[3].first_z = Some(1)
    /\ RetPixels.tiff_data[3].first_c = Some(0)
    /\ RetPixels.tiff_data[3].uuid = Some(MkUuid(<<"s", "0", "2", ".", "t">>))
    /\ RetPixels.tiff_data[4].first_c = Some(1)

\* C8: for size_z in 1..999 and z below size_z, filename is the template with the
\* placeholder replaced by z+1, zero-padded to the number of digits of size_z.
C8_PaddedToDigitsOfSizeZ ==
    (/\ pc = "filename_called"
     /\ call.config.size_z \in 1..LimitSizeZ
     /\ call.z < call.config.size_z)
        => result = Ok(call.prefix
                         \o FormatZeroPad(call.z + 1, Len(Decimal(call.config.size_z)))
                         \o call.suffix)

\* C9: parsing, serializing and parsing again yields the first parse.
C9_RoundTrip ==
    (pc = "rt_done" /\ IsOk(Unwrap(rt.first))) => Unwrap(rt.second) = Unwrap(rt.first)

\* C10: from an input whose five axis sizes are all at least 1, every returned
\* document has all five axis sizes at least 1.
C10_SizesAtLeastOne ==
    (/\ Returned
     /\ OrigPixels.size_x >= 1 /\ OrigPixels.size_y >= 1 /\ OrigPixels.size_z >= 1
     /\ OrigPixels.size_c >= 1 /\ OrigPixels.size_t >= 1)
        => /\ RetPixels.size_x >= 1 /\ RetPixels.size_y >= 1 /\ RetPixels.size_z >= 1
           /\ RetPixels.size_c >= 1 /\ RetPixels.size_t >= 1

=============================================================================
